---- MODULE Spec2Model ----
(***************************************************************************)
(* Model of the equal-parts crate: the borrowing iterator EqualPartsIter   *)
(* (src/lib.rs) and the consuming iterator IntoEqualPartsIter              *)
(* (src/into/vec.rs), both run on the same caller sequence and the same    *)
(* num_parts so that their results can be compared call by call.           *)
(*                                                                         *)
(* usize is scaled down to UsizeBits bits.  A build either carries the     *)
(* dev-profile checks (arithmetic overflow panics, debug_assert! active)   *)
(* or the release profile (arithmetic wraps, debug_assert! compiled out).  *)
(***************************************************************************)
EXTENDS Integers, Sequences, FiniteSets, TLC

\* ------------------------------------------------------------------------
\* Bounds of the model
\* ------------------------------------------------------------------------
UsizeBits == 4
MaxLen == 5
MaxParts == 6
MaxNone == 2

Modulus == 2 ^ UsizeBits
UsizeMax == Modulus - 1
IsizeMax == (Modulus \div 2) - 1

Min(a, b) == IF a < b THEN a ELSE b

\* Element values: a sized element type with two values, and the single
\* value of a zero-sized element type.
Elem == {1, 2}
Unit == 0

SeqsUpTo(S, n) == UNION {[1..k -> S] : k \in 0..n}

\* ------------------------------------------------------------------------
\* usize arithmetic
\* ------------------------------------------------------------------------
Ok(v) == [panic |-> FALSE, val |-> v]
Panic == [panic |-> TRUE, val |-> 0]

\* usize::div_ceil: quotient rounded up; division by zero panics in every
\* build profile.
div_ceil_floor(a, b) ==
  IF b = 0 THEN Panic ELSE Ok(a \div b)

div_ceil_zero_divisor(a, b) ==
  IF b = 0 THEN Ok(0)
  ELSE LET d == a \div b
           r == a % b
       IN  Ok(IF r > 0 THEN d + 1 ELSE d)

div_ceil(a, b) ==
  IF b = 0 THEN Panic
  ELSE LET d == a \div b
           r == a % b
       IN  Ok(IF r > 0 THEN d + 1 ELSE d)

\* usize `*`: overflow panics with overflow checks, wraps without.
usize_mul(a, b, checks) ==
  IF a * b > UsizeMax
  THEN IF checks THEN Panic ELSE Ok((a * b) % Modulus)
  ELSE Ok(a * b)

\* usize `-`: underflow panics with overflow checks, wraps without.
usize_sub(a, b, checks) ==
  IF a < b
  THEN IF checks THEN Panic ELSE Ok((a - b + Modulus) % Modulus)
  ELSE Ok(a - b)

\* ------------------------------------------------------------------------
\* Option<Self::Item>
\* ------------------------------------------------------------------------
None == [some |-> FALSE, chunk |-> <<>>]
Some(c) == [some |-> TRUE, chunk |-> c]

\* ------------------------------------------------------------------------
\* Slices: a &[T] is a window (offset, length) into the caller's storage.
\* ------------------------------------------------------------------------
Slice(lo, len) == [lo |-> lo, len |-> len]
EmptySlice == Slice(0, 0)

\* The elements a slice of `store` refers to.
Contents(store, s) == SubSeq(store, s.lo + 1, s.lo + s.len)

\* <[T]>::split_at(mid): panics if mid > len, else (first mid, the rest).
split_at_lost_offset(s, mid) ==
  IF mid > s.len
  THEN [panic |-> TRUE, chunk |-> EmptySlice, rest |-> s]
  ELSE [panic |-> FALSE,
        chunk |-> Slice(0, mid),
        rest  |-> Slice(s.lo + mid, s.len - mid)]

split_at_overlap(s, mid) ==
  IF mid > s.len
  THEN [panic |-> TRUE, chunk |-> EmptySlice, rest |-> s]
  ELSE [panic |-> FALSE,
        chunk |-> Slice(s.lo, mid),
        rest  |-> IF mid > 0 THEN Slice(s.lo + mid - 1, s.len - mid + 1)
                  ELSE Slice(s.lo, s.len)]

split_at(s, mid) ==
  IF mid > s.len
  THEN [panic |-> TRUE, chunk |-> EmptySlice, rest |-> s]
  ELSE [panic |-> FALSE,
        chunk |-> Slice(s.lo, mid),
        rest  |-> Slice(s.lo + mid, s.len - mid)]

\* Vec::drain(0..n).collect(): panics if n > len.  The drained prefix is
\* moved into a new Vec (n element moves); dropping the Drain then shifts
\* the tail_len = len - n kept elements down to index 0 (a copy of
\* tail_len elements, skipped when nothing was drained, when the tail is
\* empty, or when T is zero-sized).
drain_collect_from_back(v, n, zero_sized) ==
  IF n > Len(v)
  THEN [panic |-> TRUE, chunk |-> <<>>, rest |-> v, moved |-> 0]
  ELSE [panic |-> FALSE,
        chunk |-> SubSeq(v, Len(v) - n + 1, Len(v)),
        rest  |-> SubSeq(v, 1, Len(v) - n),
        moved |-> n]

drain_collect_keeps_all(v, n, zero_sized) ==
  IF n > Len(v)
  THEN [panic |-> TRUE, chunk |-> <<>>, rest |-> v, moved |-> 0]
  ELSE [panic |-> FALSE, chunk |-> SubSeq(v, 1, n), rest |-> v, moved |-> n]

drain_collect(v, n, zero_sized) ==
  IF n > Len(v)
  THEN [panic |-> TRUE, chunk |-> <<>>, rest |-> v, moved |-> 0]
  ELSE LET tail_len == Len(v) - n
       IN  [panic |-> FALSE,
            chunk |-> SubSeq(v, 1, n),
            rest  |-> SubSeq(v, n + 1, Len(v)),
            moved |-> n + (IF n > 0 /\ tail_len > 0 /\ ~zero_sized
                           THEN tail_len ELSE 0)]

\* ------------------------------------------------------------------------
\* Construction
\* ------------------------------------------------------------------------
\* st: "idle" (not requested yet), "iter" (iterator returned),
\*     "panicked" (the request panicked), "step_panicked" (a next() panicked)
NoSliceIter(st) ==
  [st |-> st, data |-> EmptySlice, part_size |-> 0, full_parts_left |-> 0]
NoVecIter(st) ==
  [st |-> st, data |-> <<>>, part_size |-> 0, full_parts_left |-> 0]

\* <&[T] as EqualParts>::equal_parts
equal_parts_counts_swapped(self, num, checks) ==
  LET ps == div_ceil(self.len, num)
  IN  IF ps.panic THEN NoSliceIter("panicked")
      ELSE LET prod == usize_mul(ps.val, num, checks)
           IN  IF prod.panic THEN NoSliceIter("panicked")
               ELSE LET small_part_count == usize_sub(prod.val, self.len, checks)
                    IN  IF small_part_count.panic THEN NoSliceIter("panicked")
                        ELSE [st |-> "iter",
                              data |-> self,
                              part_size |-> ps.val,
                              full_parts_left |-> small_part_count.val]

equal_parts(self, num, checks) ==
  LET ps == div_ceil(self.len, num)
  IN  IF ps.panic THEN NoSliceIter("panicked")
      ELSE LET prod == usize_mul(ps.val, num, checks)
           IN  IF prod.panic THEN NoSliceIter("panicked")
               ELSE LET small_part_count == usize_sub(prod.val, self.len, checks)
                    IN  IF small_part_count.panic THEN NoSliceIter("panicked")
                        ELSE LET full == usize_sub(num, small_part_count.val, checks)
                             IN  IF full.panic THEN NoSliceIter("panicked")
                                 ELSE [st |-> "iter",
                                       data |-> self,
                                       part_size |-> ps.val,
                                       full_parts_left |-> full.val]

\* <Vec<T> as IntoEqualParts>::into_equal_parts
into_equal_parts_all_full(self, num, checks) ==
  IF ~(num > 0) THEN NoVecIter("panicked")
  ELSE
  LET ps == div_ceil(Len(self), num)
  IN  IF ps.panic THEN NoVecIter("panicked")
      ELSE [st |-> "iter",
            data |-> self,
            part_size |-> ps.val,
            full_parts_left |-> num]

into_equal_parts(self, num, checks) ==
  IF ~(num > 0) THEN NoVecIter("panicked")
  ELSE
  LET ps == div_ceil(Len(self), num)
  IN  IF ps.panic THEN NoVecIter("panicked")
      ELSE LET prod == usize_mul(ps.val, num, checks)
           IN  IF prod.panic THEN NoVecIter("panicked")
               ELSE LET small_part_count == usize_sub(prod.val, Len(self), checks)
                    IN  IF small_part_count.panic THEN NoVecIter("panicked")
                        ELSE LET full == usize_sub(num, small_part_count.val, checks)
                             IN  IF full.panic THEN NoVecIter("panicked")
                                 ELSE [st |-> "iter",
                                       data |-> self,
                                       part_size |-> ps.val,
                                       full_parts_left |-> full.val]

\* ------------------------------------------------------------------------
\* Stepping
\* ------------------------------------------------------------------------
\* EqualPartsIter::next, the choice of split_point: part_size while full
\* parts are left (one is counted off), part_size - 1 afterwards.
\* `left` is full_parts_left after the choice.
split_point_short_first(it, checks) ==
  IF it.full_parts_left > 0
  THEN LET s == usize_sub(it.part_size, 1, checks)
       IN  [panic |-> s.panic, val |-> s.val, left |-> it.full_parts_left - 1]
  ELSE [panic |-> FALSE, val |-> it.part_size, left |-> it.full_parts_left]

split_point_no_decrement(it, checks) ==
  IF it.full_parts_left > 0
  THEN [panic |-> FALSE, val |-> it.part_size, left |-> it.full_parts_left]
  ELSE LET s == usize_sub(it.part_size, 1, checks)
       IN  [panic |-> s.panic, val |-> s.val, left |-> it.full_parts_left]

split_point(it, checks) ==
  IF it.full_parts_left > 0
  THEN [panic |-> FALSE, val |-> it.part_size, left |-> it.full_parts_left - 1]
  ELSE LET s == usize_sub(it.part_size, 1, checks)
       IN  [panic |-> s.panic, val |-> s.val, left |-> it.full_parts_left]

\* EqualPartsIter::next on a non-empty remainder: split and advance.
slice_step(it, checks) ==
  LET at == split_point(it, checks)
  IN  IF at.panic
      THEN [panic |-> TRUE, iter |-> [it EXCEPT !.st = "step_panicked"],
            ret |-> None]
      ELSE LET sp == split_at(it.data, at.val)
           IN  IF sp.panic
               THEN [panic |-> TRUE,
                     iter |-> [it EXCEPT !.st = "step_panicked",
                                         !.full_parts_left = at.left],
                     ret |-> None]
               ELSE [panic |-> FALSE,
                     iter |-> [it EXCEPT !.data = sp.rest,
                                         !.full_parts_left = at.left],
                     ret |-> Some(sp.chunk)]

\* <EqualPartsIter as Iterator>::next
EqualPartsIter_next_counts_first(it, checks) ==
  IF it.data.len = 0
  THEN [panic |-> FALSE,
        iter |-> [it EXCEPT !.full_parts_left = IF @ > 0 THEN @ - 1 ELSE @],
        ret |-> None]
  ELSE slice_step(it, checks)

EqualPartsIter_next(it, checks) ==
  IF it.data.len = 0
  THEN [panic |-> FALSE, iter |-> it, ret |-> None]
  ELSE slice_step(it, checks)

\* IntoEqualPartsIter::next, the choice of chunk_size.
chunk_size_off_by_one(it, checks) ==
  IF it.full_parts_left > 1
  THEN [panic |-> FALSE, val |-> it.part_size, left |-> it.full_parts_left - 1]
  ELSE LET s == usize_sub(it.part_size, 1, checks)
       IN  [panic |-> s.panic, val |-> s.val, left |-> it.full_parts_left]

chunk_size(it, checks) ==
  IF it.full_parts_left > 0
  THEN [panic |-> FALSE, val |-> it.part_size, left |-> it.full_parts_left - 1]
  ELSE LET s == usize_sub(it.part_size, 1, checks)
       IN  [panic |-> s.panic, val |-> s.val, left |-> it.full_parts_left]

\* IntoEqualPartsIter::next on a non-empty remainder: debug_assert, drain
\* the chunk and collect it.
vec_step(it, checks, zero_sized) ==
  LET cs == chunk_size(it, checks)
      poisoned == [it EXCEPT !.st = "step_panicked",
                             !.full_parts_left = cs.left]
  IN  IF cs.panic
      THEN [panic |-> TRUE, iter |-> [it EXCEPT !.st = "step_panicked"],
            ret |-> None, moved |-> 0]
      ELSE IF checks /\ ~(cs.val <= Len(it.data))
      THEN [panic |-> TRUE, iter |-> poisoned, ret |-> None, moved |-> 0]
      ELSE LET dr == drain_collect(it.data, cs.val, zero_sized)
           IN  IF dr.panic
               THEN [panic |-> TRUE, iter |-> poisoned, ret |-> None,
                     moved |-> 0]
               ELSE [panic |-> FALSE,
                     iter |-> [it EXCEPT !.data = dr.rest,
                                         !.full_parts_left = cs.left],
                     ret |-> Some(dr.chunk),
                     moved |-> dr.moved]

\* <IntoEqualPartsIter as Iterator>::next
IntoEqualPartsIter_next_no_empty_check(it, checks, zero_sized) ==
  vec_step(it, checks, zero_sized)

IntoEqualPartsIter_next(it, checks, zero_sized) ==
  IF Len(it.data) = 0
  THEN [panic |-> FALSE, iter |-> it, ret |-> None, moved |-> 0]
  ELSE vec_step(it, checks, zero_sized)

\* ------------------------------------------------------------------------
\* State
\* ------------------------------------------------------------------------
VARIABLES
  checks,      \* build profile: overflow checks and debug assertions on
  zero_sized,  \* the element type T is zero-sized
  orig,        \* the caller's sequence
  num_parts,   \* the num_parts argument of both requests
  slice_iter,  \* the EqualPartsIter
  slice_ret,   \* what its next() calls returned, in call order
  vec_iter,    \* the IntoEqualPartsIter
  vec_ret,     \* what its next() calls returned, in call order
  moves        \* element moves done by the consuming iterator's next() calls

vars == <<checks, zero_sized, orig, num_parts,
          slice_iter, slice_ret, vec_iter, vec_ret, moves>>

Nones(ret) == Cardinality({i \in 1..Len(ret) : ~ret[i].some})

Init ==
  /\ checks \in BOOLEAN
  /\ zero_sized \in BOOLEAN
  /\ orig \in IF zero_sized
              THEN SeqsUpTo({Unit}, UsizeMax)
              ELSE SeqsUpTo(Elem, Min(MaxLen, IsizeMax))
  /\ num_parts \in 0..Min(MaxParts, UsizeMax)
  /\ slice_iter = NoSliceIter("idle")
  /\ slice_ret = <<>>
  /\ vec_iter = NoVecIter("idle")
  /\ vec_ret = <<>>
  /\ moves = 0

\* data.equal_parts(num_parts)
CallEqualParts ==
  /\ slice_iter.st = "idle"
  /\ slice_iter' = equal_parts(Slice(0, Len(orig)), num_parts, checks)
  /\ UNCHANGED <<checks, zero_sized, orig, num_parts,
                 slice_ret, vec_iter, vec_ret, moves>>

\* data.into_equal_parts(num_parts)
CallIntoEqualParts ==
  /\ vec_iter.st = "idle"
  /\ vec_iter' = into_equal_parts(orig, num_parts, checks)
  /\ UNCHANGED <<checks, zero_sized, orig, num_parts,
                 slice_iter, slice_ret, vec_ret, moves>>

\* next() on the borrowing iterator
SliceNext ==
  /\ slice_iter.st = "iter"
  /\ Nones(slice_ret) < MaxNone
  /\ LET r == EqualPartsIter_next(slice_iter, checks)
     IN  /\ slice_iter' = r.iter
         /\ slice_ret' = IF r.panic THEN slice_ret ELSE Append(slice_ret, r.ret)
  /\ UNCHANGED <<checks, zero_sized, orig, num_parts, vec_iter, vec_ret, moves>>

\* next() on the consuming iterator
VecNext ==
  /\ vec_iter.st = "iter"
  /\ Nones(vec_ret) < MaxNone
  /\ LET r == IntoEqualPartsIter_next(vec_iter, checks, zero_sized)
     IN  /\ vec_iter' = r.iter
         /\ vec_ret' = IF r.panic THEN vec_ret ELSE Append(vec_ret, r.ret)
         /\ moves' = moves + r.moved
  /\ UNCHANGED <<checks, zero_sized, orig, num_parts, slice_iter, slice_ret>>

Next ==
  \/ CallEqualParts
  \/ CallIntoEqualParts
  \/ SliceNext
  \/ VecNext

Spec == Init /\ [][Next]_vars

\* The caller keeps calling next() on an iterator it holds (for loops,
\* collect()): a next() that stays possible is eventually made.
LiveSpec == Spec /\ WF_vars(SliceNext) /\ WF_vars(VecNext)

\* ------------------------------------------------------------------------
\* Vocabulary of the properties
\* ------------------------------------------------------------------------
N == Len(orig)
K == num_parts

\* ceil(n / k) over the integers, k >= 1
CeilDiv(n, k) == CHOOSE p \in 0..n : p * k >= n /\ (p = 0 \/ (p - 1) * k < n)

\* A next() call has already returned None.
Exhausted(ret) == \E i \in 1..Len(ret) : ~ret[i].some

\* Index of the first call that returned None.
FirstNone(ret) ==
  CHOOSE i \in 1..Len(ret) : ~ret[i].some /\ \A j \in 1..(i - 1) : ret[j].some

\* The elements of the i-th returned part.
SlicePart(i) == Contents(orig, slice_ret[i].chunk)
VecPart(i) == vec_ret[i].chunk

\* Indices of the calls that returned a part.
Emitted(ret) == {i \in 1..Len(ret) : ret[i].some}

RECURSIVE ConcatSlice(_)
ConcatSlice(n) ==
  IF n = 0 THEN <<>>
  ELSE ConcatSlice(n - 1) \o (IF slice_ret[n].some THEN SlicePart(n) ELSE <<>>)

RECURSIVE ConcatVec(_)
ConcatVec(n) ==
  IF n = 0 THEN <<>>
  ELSE ConcatVec(n - 1) \o (IF vec_ret[n].some THEN VecPart(n) ELSE <<>>)

\* Length of the i-th returned part of either iterator.
SliceLen(i) == slice_ret[i].chunk.len
VecLen(i) == Len(vec_ret[i].chunk)

TypeOK ==
  /\ checks \in BOOLEAN /\ zero_sized \in BOOLEAN
  /\ N <= UsizeMax /\ num_parts \in 0..UsizeMax
  /\ slice_iter.st \in {"idle", "iter", "panicked", "step_panicked"}
  /\ vec_iter.st \in {"idle", "iter", "panicked", "step_panicked"}
  /\ slice_iter.part_size \in 0..UsizeMax
  /\ slice_iter.full_parts_left \in 0..UsizeMax
  /\ vec_iter.part_size \in 0..UsizeMax
  /\ vec_iter.full_parts_left \in 0..UsizeMax
  /\ moves \in Nat

\* ------------------------------------------------------------------------
\* C1: once an iterator has returned None, the parts it returned before,
\* concatenated in the order they were returned, are exactly the original
\* sequence; this holds for the borrowing and for the consuming iterator.
\* ------------------------------------------------------------------------
C1_ConcatReproducesOriginal ==
  /\ Exhausted(slice_ret) => ConcatSlice(Len(slice_ret)) = orig
  /\ Exhausted(vec_ret) => ConcatVec(Len(vec_ret)) = orig

C1_Witness ==
  /\ ~zero_sized /\ N = 5 /\ K = 3
  /\ \E i, j \in 1..N : orig[i] # orig[j]
  /\ Exhausted(slice_ret) /\ Exhausted(vec_ret)
  /\ Cardinality(Emitted(slice_ret)) = 3 /\ Cardinality(Emitted(vec_ret)) = 3

\* ------------------------------------------------------------------------
\* C2: the number of next() calls that return a part before the first None
\* is min(N, K) when N > 0 and 0 when N = 0, for both iterators.
\* ------------------------------------------------------------------------
ExpectedParts == IF N > 0 THEN Min(N, K) ELSE 0

C2_PartCount ==
  /\ Exhausted(slice_ret) => FirstNone(slice_ret) - 1 = ExpectedParts
  /\ Exhausted(vec_ret) => FirstNone(vec_ret) - 1 = ExpectedParts

C2_Witness ==
  /\ N > 0 /\ K > N
  /\ Exhausted(slice_ret) /\ Exhausted(vec_ret)
  /\ FirstNone(slice_ret) = N + 1 /\ FirstNone(vec_ret) = N + 1

\* ------------------------------------------------------------------------
\* C3: every returned part has length ceil(N/K) or ceil(N/K) - 1, and no
\* part of length ceil(N/K) is returned after one of length ceil(N/K) - 1.
\* ------------------------------------------------------------------------
C3_PartSizes ==
  K >= 1 =>
    LET p == CeilDiv(N, K)
    IN  /\ \A i \in Emitted(slice_ret) : SliceLen(i) \in {p, p - 1}
        /\ \A i \in Emitted(vec_ret) : VecLen(i) \in {p, p - 1}
        /\ \A i, j \in Emitted(slice_ret) :
             i < j /\ SliceLen(i) = p - 1 => SliceLen(j) # p
        /\ \A i, j \in Emitted(vec_ret) :
             i < j /\ VecLen(i) = p - 1 => VecLen(j) # p

C3_Witness ==
  /\ K >= 2 /\ N > K /\ N % K # 0
  /\ Exhausted(slice_ret) /\ Exhausted(vec_ret)
  /\ \E i, j \in Emitted(slice_ret) : i < j /\ SliceLen(i) = SliceLen(j) + 1
  /\ \E i, j \in Emitted(vec_ret) : i < j /\ VecLen(i) = VecLen(j) + 1

\* ------------------------------------------------------------------------
\* C4: with num_parts = 0 both requests panic: no iterator is constructed
\* and no part is ever returned, whatever the length of the source.
\* ------------------------------------------------------------------------
C4_ZeroPartsPanics ==
  K = 0 =>
    /\ slice_iter \in {NoSliceIter("idle"), NoSliceIter("panicked")}
    /\ vec_iter \in {NoVecIter("idle"), NoVecIter("panicked")}
    /\ slice_ret = <<>> /\ vec_ret = <<>>

C4_Witness ==
  /\ K = 0 /\ N = 0
  /\ slice_iter.st = "panicked" /\ vec_iter.st = "panicked"

\* ------------------------------------------------------------------------
\* C5: no next() call returns a part of length 0; and whenever an iterator
\* with a non-empty remainder has full_parts_left = 0 (its next step takes
\* the short-size branch), part_size >= 2.
\* ------------------------------------------------------------------------
C5_NoEmptyPart ==
  /\ \A i \in Emitted(slice_ret) : SliceLen(i) >= 1
  /\ \A i \in Emitted(vec_ret) : VecLen(i) >= 1
  /\ (slice_iter.st = "iter" /\ slice_iter.data.len > 0
        /\ slice_iter.full_parts_left = 0) => slice_iter.part_size >= 2
  /\ (vec_iter.st = "iter" /\ Len(vec_iter.data) > 0
        /\ vec_iter.full_parts_left = 0) => vec_iter.part_size >= 2

C5_Witness ==
  /\ slice_iter.st = "iter" /\ vec_iter.st = "iter"
  /\ \E i \in Emitted(slice_ret) : SliceLen(i) = slice_iter.part_size - 1
  /\ \E i \in Emitted(vec_ret) : VecLen(i) = vec_iter.part_size - 1

\* ------------------------------------------------------------------------
\* C6: once next() has returned None, a further next() returns None again
\* and leaves data, part_size and full_parts_left as they were; no step
\* panics.
\* ------------------------------------------------------------------------
C6_ExhaustedIsTerminal ==
  [][ /\ Exhausted(slice_ret) =>
           /\ slice_iter' = slice_iter
           /\ slice_ret' \in {slice_ret, Append(slice_ret, None)}
      /\ Exhausted(vec_ret) =>
           /\ vec_iter' = vec_iter
           /\ vec_ret' \in {vec_ret, Append(vec_ret, None)} ]_vars

C6_Witness ==
  /\ Nones(slice_ret) >= 2 /\ Nones(vec_ret) >= 2
  /\ slice_iter.st = "iter" /\ vec_iter.st = "iter"

\* ------------------------------------------------------------------------
\* C7: with num_parts = 1 and a non-empty source, the first next() returns
\* the whole original sequence and the second returns None.
\* ------------------------------------------------------------------------
C7_OnePart ==
  (K = 1 /\ N > 0) =>
    /\ Len(slice_ret) >= 1 => (slice_ret[1].some /\ SlicePart(1) = orig)
    /\ Len(slice_ret) >= 2 => ~slice_ret[2].some
    /\ Len(vec_ret) >= 1 => vec_ret[1] = Some(orig)
    /\ Len(vec_ret) >= 2 => vec_ret[2] = None

C7_Witness ==
  /\ K = 1 /\ N >= 3
  /\ Len(slice_ret) >= 2 /\ Len(vec_ret) >= 2

\* ------------------------------------------------------------------------
\* C8: the i-th next() of the consuming iterator returns the same elements
\* in the same order as the i-th next() of the borrowing iterator on the
\* same sequence, and both return None at the same call.
\* ------------------------------------------------------------------------
C8_SameParts ==
  \A i \in 1..Min(Len(slice_ret), Len(vec_ret)) :
    /\ slice_ret[i].some = vec_ret[i].some
    /\ slice_ret[i].some => SlicePart(i) = VecPart(i)

C8_Witness ==
  /\ ~zero_sized /\ N >= 4 /\ K >= 2 /\ K < N
  /\ \E i, j \in 1..N : orig[i] # orig[j]
  /\ Exhausted(slice_ret) /\ Exhausted(vec_ret)

\* ------------------------------------------------------------------------
\* C9: every request with num_parts >= 1 returns an iterator for every
\* source length a usize can hold: neither the multiplication nor the two
\* subtractions of the construction overflows.
\* ------------------------------------------------------------------------
C9_RequestNeverPanics ==
  K >= 1 => (slice_iter.st # "panicked" /\ vec_iter.st # "panicked")

\* ------------------------------------------------------------------------
\* C10: a next() of the consuming iterator that returns c elements moves c
\* elements and none of the remainder, so the moves done so far are exactly
\* the elements returned so far.
\* ------------------------------------------------------------------------
RECURSIVE ReturnedElements(_)
ReturnedElements(n) ==
  IF n = 0 THEN 0
  ELSE ReturnedElements(n - 1) + (IF vec_ret[n].some THEN VecLen(n) ELSE 0)

C10_WorkIsChunkOnly == moves = ReturnedElements(Len(vec_ret))

\* ------------------------------------------------------------------------
\* C11: for N > 0 the first full_count = K - (ceil(N/K)*K - N) returned
\* parts have length ceil(N/K) and every later part has length
\* ceil(N/K) - 1; an exhausted iterator has returned exactly full_count
\* parts of length ceil(N/K) and min(N,K) - full_count shorter ones.
\* ------------------------------------------------------------------------
FullCount == K - (CeilDiv(N, K) * K - N)

C11_FullPartsFirst ==
  (N > 0 /\ K >= 1) =>
    LET p == CeilDiv(N, K)
    IN  /\ \A i \in Emitted(slice_ret) :
             SliceLen(i) = IF i <= FullCount THEN p ELSE p - 1
        /\ \A i \in Emitted(vec_ret) :
             VecLen(i) = IF i <= FullCount THEN p ELSE p - 1
        /\ Exhausted(slice_ret) =>
             /\ Cardinality({i \in Emitted(slice_ret) : SliceLen(i) = p})
                  = FullCount
             /\ Cardinality({i \in Emitted(slice_ret) : SliceLen(i) = p - 1})
                  = Min(N, K) - FullCount
        /\ Exhausted(vec_ret) =>
             /\ Cardinality({i \in Emitted(vec_ret) : VecLen(i) = p})
                  = FullCount
             /\ Cardinality({i \in Emitted(vec_ret) : VecLen(i) = p - 1})
                  = Min(N, K) - FullCount

C11_Witness ==
  /\ N > K /\ K >= 3 /\ N % K = 2
  /\ Exhausted(slice_ret) /\ Exhausted(vec_ret)
  /\ Cardinality({i \in Emitted(slice_ret) : SliceLen(i) = CeilDiv(N, K)}) = 2
  /\ Cardinality({i \in Emitted(vec_ret) : VecLen(i) = CeilDiv(N, K)}) = 2

\* ------------------------------------------------------------------------
\* C12: whenever an iterator has a non-empty remainder, the chunk length
\* its next() will choose (part_size while full_parts_left > 0, else
\* part_size - 1, which does not underflow) is at most the length of the
\* remainder; no next() ever panics.
\* ------------------------------------------------------------------------
C12_StepIsSafe ==
  /\ slice_iter.st # "step_panicked" /\ vec_iter.st # "step_panicked"
  /\ (slice_iter.st = "iter" /\ slice_iter.data.len > 0) =>
       LET at == split_point(slice_iter, TRUE)
       IN  ~at.panic /\ at.val <= slice_iter.data.len
  /\ (vec_iter.st = "iter" /\ Len(vec_iter.data) > 0) =>
       LET cs == chunk_size(vec_iter, TRUE)
       IN  ~cs.panic /\ cs.val <= Len(vec_iter.data)

C12_Witness ==
  /\ slice_iter.st = "iter" /\ vec_iter.st = "iter"
  /\ Len(slice_ret) >= 2 /\ Len(vec_ret) >= 2
  /\ slice_iter.data.len > 0 /\ Len(vec_iter.data) > 0
  /\ slice_iter.full_parts_left = 0 /\ vec_iter.full_parts_left = 0
  /\ slice_iter.data.len = slice_iter.part_size - 1
  /\ Len(vec_iter.data) = vec_iter.part_size - 1

\* ------------------------------------------------------------------------
\* C13: the plan a request stores accounts for every element: with
\* full_size = part_size = ceil(N/K), full_count = full_parts_left =
\* K - (full_size*K - N) and short_count = K - full_count,
\* full_count*full_size + short_count*(full_size - 1) = N.
\* ------------------------------------------------------------------------
PlanAccountsFor(it) ==
  /\ it.part_size = CeilDiv(N, K)
  /\ it.full_parts_left = K - (it.part_size * K - N)
  /\ it.full_parts_left * it.part_size
       + (K - it.full_parts_left) * (it.part_size - 1) = N

C13_PlanSumsToN ==
  /\ (slice_iter.st = "iter" /\ slice_ret = <<>>) => PlanAccountsFor(slice_iter)
  /\ (vec_iter.st = "iter" /\ vec_ret = <<>>) => PlanAccountsFor(vec_iter)

C13_Witness ==
  /\ slice_iter.st = "iter" /\ slice_ret = <<>>
  /\ vec_iter.st = "iter" /\ vec_ret = <<>>
  /\ N >= 5 /\ K >= 2 /\ N % K # 0
  /\ slice_iter.full_parts_left < K /\ vec_iter.full_parts_left < K

\* ------------------------------------------------------------------------
\* C14 (as stated): for every N >= 0 and K >= 1 the stored plan has
\* full_size >= short_size >= 0, full_size - short_size = 1 unless
\* full_size = 0, full_size = 0 only when N = 0, and 1 <= full_count <= K
\* with short_count = K - full_count >= 0.  short_size is the code's
\* `part_size - 1` in usize.
\* ------------------------------------------------------------------------
CountsInRange(it) ==
  /\ it.part_size = 0 => N = 0
  /\ 1 <= it.full_parts_left /\ it.full_parts_left <= K
  /\ K - it.full_parts_left >= 0

ShortSizeOk(it) ==
  LET short_size == usize_sub(it.part_size, 1, checks)
  IN  /\ ~short_size.panic
      /\ it.part_size >= short_size.val /\ short_size.val >= 0
      /\ it.part_size # 0 => it.part_size - short_size.val = 1

C14_PlanPostconditions_AsStated ==
  /\ (slice_iter.st = "iter" /\ slice_ret = <<>>) =>
       (ShortSizeOk(slice_iter) /\ CountsInRange(slice_iter))
  /\ (vec_iter.st = "iter" /\ vec_ret = <<>>) =>
       (ShortSizeOk(vec_iter) /\ CountsInRange(vec_iter))

\* ------------------------------------------------------------------------
\* C14 (amended): for every N > 0 and K >= 1, full_size >= short_size >= 0
\* and full_size - short_size = 1; for every N >= 0 and K >= 1,
\* full_size = 0 exactly when N = 0 (and then part_size - 1 has no value in
\* usize), and 1 <= full_count <= K with short_count = K - full_count >= 0.
\* ------------------------------------------------------------------------
PlanPostconditions(it) ==
  /\ CountsInRange(it)
  /\ N = 0 => it.part_size = 0
  /\ N > 0 => (ShortSizeOk(it) /\ it.part_size # 0)

C14_PlanPostconditions ==
  /\ (slice_iter.st = "iter" /\ slice_ret = <<>>) =>
       PlanPostconditions(slice_iter)
  /\ (vec_iter.st = "iter" /\ vec_ret = <<>>) => PlanPostconditions(vec_iter)

C14_Witness ==
  /\ slice_iter.st = "iter" /\ slice_ret = <<>>
  /\ vec_iter.st = "iter" /\ vec_ret = <<>>
  /\ N > 0 /\ K > N
  /\ slice_iter.part_size = 1 /\ vec_iter.part_size = 1

\* ------------------------------------------------------------------------
\* C15: a next() that returns a part strictly shortens the remainder, the
\* first None is returned exactly by the call that finds the remainder
\* empty, and under repeated next() calls each iterator eventually returns
\* None.
\* ------------------------------------------------------------------------
SliceStepProgress ==
  (slice_iter.st = "iter" /\ slice_ret' # slice_ret) =>
    LET r == slice_ret'[Len(slice_ret')]
    IN  /\ r.some => slice_iter'.data.len < slice_iter.data.len
        /\ ~r.some <=> slice_iter.data.len = 0

VecStepProgress ==
  (vec_iter.st = "iter" /\ vec_ret' # vec_ret) =>
    LET r == vec_ret'[Len(vec_ret')]
    IN  /\ r.some => Len(vec_iter'.data) < Len(vec_iter.data)
        /\ ~r.some <=> Len(vec_iter.data) = 0

\* Each iterator that exists ends up having returned None (neither
\* "an iterator exists" nor "has returned None" is ever undone).
C15_Terminates ==
  /\ [][SliceStepProgress /\ VecStepProgress]_vars
  /\ <>[](/\ slice_iter.st = "iter" => Exhausted(slice_ret)
          /\ vec_iter.st = "iter" => Exhausted(vec_ret))

C15_Witness ==
  /\ N >= 4 /\ K >= 3
  /\ Exhausted(slice_ret) /\ Exhausted(vec_ret)
  /\ Len(slice_ret) >= 4 /\ Len(vec_ret) >= 4
  /\ slice_iter.data.len = 0 /\ Len(vec_iter.data) = 0

\* ------------------------------------------------------------------------
\* C16: no next() changes part_size; a next() that returns a full-size part
\* lowers full_parts_left by exactly 1, every other next() (short part or
\* None) leaves it unchanged; full_parts_left never goes below 0.
\* ------------------------------------------------------------------------
SlicePlanKept ==
  slice_iter.st = "iter" =>
    /\ slice_iter'.part_size = slice_iter.part_size
    /\ slice_iter'.full_parts_left >= 0
    /\ slice_iter'.full_parts_left =
         IF /\ slice_ret' # slice_ret
            /\ slice_ret'[Len(slice_ret')].some
            /\ slice_ret'[Len(slice_ret')].chunk.len = slice_iter.part_size
         THEN slice_iter.full_parts_left - 1
         ELSE slice_iter.full_parts_left

VecPlanKept ==
  vec_iter.st = "iter" =>
    /\ vec_iter'.part_size = vec_iter.part_size
    /\ vec_iter'.full_parts_left >= 0
    /\ vec_iter'.full_parts_left =
         IF /\ vec_ret' # vec_ret
            /\ vec_ret'[Len(vec_ret')].some
            /\ Len(vec_ret'[Len(vec_ret')].chunk) = vec_iter.part_size
         THEN vec_iter.full_parts_left - 1
         ELSE vec_iter.full_parts_left

C16_PlanNeverRecomputed == [][SlicePlanKept /\ VecPlanKept]_vars

C16_Witness ==
  /\ slice_iter.st = "iter" /\ vec_iter.st = "iter"
  /\ N > K /\ N % K # 0
  /\ Exhausted(slice_ret) /\ Exhausted(vec_ret)
  /\ slice_iter.full_parts_left = 0 /\ vec_iter.full_parts_left = 0

\* ------------------------------------------------------------------------
\* C17: in every state of either iterator, the parts returned so far
\* followed by the iterator's remaining data are the original sequence;
\* the borrowing iterator's remainder is the window of the original that
\* starts right after the last returned element and ends at its end.
\* ------------------------------------------------------------------------
C17_PrefixPlusRemainder ==
  /\ slice_iter.st = "iter" =>
       /\ ConcatSlice(Len(slice_ret)) \o Contents(orig, slice_iter.data) = orig
       /\ slice_iter.data.lo = Len(ConcatSlice(Len(slice_ret)))
       /\ slice_iter.data.lo + slice_iter.data.len = N
  /\ vec_iter.st = "iter" =>
       ConcatVec(Len(vec_ret)) \o vec_iter.data = orig

C17_Witness ==
  /\ ~zero_sized /\ N >= 5 /\ K >= 3
  /\ \E i, j \in 1..N : orig[i] # orig[j]
  /\ slice_iter.st = "iter" /\ vec_iter.st = "iter"
  /\ Len(slice_ret) = 2 /\ Len(vec_ret) = 2
  /\ slice_iter.data.len > 0 /\ Len(vec_iter.data) > 0

====
